---- MODULE Spec2Model ----
(***************************************************************************)
(* AquaShield AI (CORTEX): the Express gateway routes in front of the      *)
(* Python analysis service, and the React pages that call them.            *)
(*                                                                         *)
(* A handler is an async function: it runs to completion between awaits,   *)
(* so every action below is one segment of a handler between two awaits    *)
(* (or between an await and the response).                                 *)
(***************************************************************************)
EXTENDS Integers, Sequences, FiniteSets, TLC

\* ------------------------------------------------------------------ bounds
\* Request slots of the gateway (requests in flight at the same time).
MaxReqs == 2
\* Longest vessel_statuses list the detector returns.
MaxVessels == 2
\* how many history entries are saved at most
MaxSaves == 4
\* how many milliseconds pass at most
MaxTicks == 2
\* The history store keeps the last 500 entries and a fetch returns the first 50;
\* the model keeps the last StoreCap and returns the first PageCap.
StoreCap == 3
PageCap == 2

\* ------------------------------------------------------- JavaScript values
\* A JS value is tagged with its typeof; a field missing from a JSON body
\* reads as undefined.
Undefined == [t |-> "undefined"]
Null == [t |-> "null"]
Num(n) == [t |-> "number", v |-> n]
Str(s) == [t |-> "string", v |-> s]
Obj(x) == [t |-> "object", v |-> x]
\* the number NaN (what parseFloat gives for a text that starts with no number)
NaN == [t |-> "NaN"]

\* ToBoolean(x) = false.  Objects and arrays (also the empty array) are truthy.
Falsy(x) ==
    \/ x.t \in {"undefined", "null", "NaN"}
    \/ (x.t = "number" /\ x.v = 0)
    \/ (x.t = "string" /\ x.v = "")

\* a || b
JsOr(a, b) == IF Falsy(a) THEN b ELSE a

\* ---------------------------------------------------------------- gateway
Reqs == 1..MaxReqs

Routes == {"aegis", "marine", "cascade"}

VARIABLES
    route,          \* route[r]: the route request r was sent to ("none": free slot)
    body,           \* body[r]: req.body
    upstream,       \* upstream[r]: what the analysis service computes for r's first call
    pc,             \* pc[r]: where r's handler is suspended
    sent,           \* sent[r]: the upstream requests r's handler has issued, in order
    replies,        \* replies[r]: the upstream replies r's handler has received, in order
    statuses,       \* statuses[r]: the handler's const statuses (marine)
    spillResults,   \* spillResults[r]: the handler's const spillResults (marine)
    idx,            \* idx[r]: position of the for-of loop over statuses (marine)
    res             \* res[r]: the HTTP response (status 0: none yet)

gwVars == <<route, body, upstream, pc, sent, replies, statuses, spillResults, idx, res>>

\* The AEGIS and Marine monitor pages (React state of the mounted page).
VARIABLES
    pgPage,         \* which page is mounted: "aegis" or "marine"
    pgUser,         \* useAuth().user: Null or the signed-in user
    pgPc,           \* where runAnalysis is suspended ("idle": not running)
    pgLoading,      \* const [loading, setLoading]
    pgError,        \* const [error, setError]
    pgResult,       \* const [result, setResult]
    pgAnalyzed,     \* the current run's POST /api/<page>/analyze has succeeded
    pgPosted        \* the body of the last POST /api/<page>/analyze

pgVars == <<pgPage, pgUser, pgPc, pgLoading, pgError, pgResult, pgAnalyzed, pgPosted>>

\* ------------------------------------------- the AEGIS page's input panel
VARIABLES
    fmMode,         \* 'scenario' or 'manual'
    fmScenario,     \* the scenario selected
    fmTimeStep,     \* the "hours ahead" slider
    fmManual        \* manualParams: field -> number, in tenths

fmVars == <<fmMode, fmScenario, fmTimeStep, fmManual>>

\* ------------------------------------------- the Cascade Simulator page
VARIABLES
    csSourceType,       \* const [sourceType, setSourceType]
    csSourceLocation,   \* const [sourceLocation, setSourceLocation]
    csFlowDirection,    \* const [flowDirection, setFlowDirection]
    csFlowSpeed,        \* const [flowSpeed, setFlowSpeed], in tenths of m/s
    csSimHours,         \* const [simHours, setSimHours]
    csCurrentHour,      \* const [currentHour, setCurrentHour]
    csResult,           \* const [result, setResult]
    csLoading,          \* const [loading, setLoading]
    csError,            \* const [error, setError]
    csPc,               \* where runSimulation is suspended ("idle": not running)
    csPosted            \* the body of the last POST /api/cascade/simulate

csControls == <<csSourceType, csSourceLocation, csFlowDirection, csFlowSpeed, csSimHours>>

csVars == <<csControls, csCurrentHour, csResult, csLoading, csError, csPc, csPosted>>

\* ------------------------------------------- routing and authentication
VARIABLES
    auLoading,      \* useAuth().loading: the session check has not finished
    auUser,         \* useAuth().user: Null or the signed-in user
    auSign,         \* what the auth provider makes of the sign-in in flight
    auLoc,          \* useLocation(): [pathname, state]
    auPrev,         \* the location before the last navigation
    auNav,          \* what caused the last navigation
    auRequested,    \* the path the user last asked for
    lgError,        \* Login: const [error, setError]
    lgLoading,      \* Login: const [loading, setLoading]
    lgPc,           \* where the sign-in handler is suspended ("idle": not running)
    lgKind,         \* which sign-in the handler runs: login, register or google
    lgFrom,         \* the `from` of the render the running handler was created in
    lgAlive,        \* the Login the running handler belongs to is still mounted
    lgOutcome       \* the sign-in last started, "pending" and then how it ended,
                    \* as long as the user has done nothing else since ("none")

auVars == <<auLoading, auUser, auSign, auLoc, auPrev, auNav, auRequested>>

lgVars == <<lgError, lgLoading, lgPc, lgKind, lgFrom, lgAlive, lgOutcome>>

\* ------------------------------------------- the in-memory history store
VARIABLES
    analysisHistory,    \* let analysisHistory = []
    hsNow,              \* the clock: what Date.now() returns
    hsSaved,            \* every entry ever pushed, in the order of the pushes
    hsReq,              \* the last request to /api/user/history
    hsRes               \* its response

hsVars == <<analysisHistory, hsNow, hsSaved, hsReq, hsRes>>

\* What the actions of one part of the program leave alone: the other parts.
beyondGateway == <<pgVars, fmVars, csVars, auVars, lgVars, hsVars>>

beyondPage == <<gwVars, csVars, auVars, lgVars, hsVars>>

beyondCascade == <<gwVars, pgVars, fmVars, auVars, lgVars, hsVars>>

beyondAuth == <<gwVars, pgVars, fmVars, csVars, hsVars>>

beyondHistory == <<gwVars, pgVars, fmVars, csVars, auVars, lgVars>>


PrimaryOp(rt) ==
    CASE rt = "aegis" -> "predict_fragility"
      [] rt = "marine" -> "detect_vessel_anomaly"
      [] rt = "cascade" -> "simulate_propagation"
      [] OTHER -> "none"

\* error.message of a failed axios call
FailureMessages == {"connect ECONNREFUSED", "Request failed with status code 422"}

NoResponse == [status |-> 0, body |-> [none |-> TRUE]]

\* res.json(data)
JsonResponse(data) == [status |-> 200, body |-> data]

\* res.status(500).json({ error, detail })
AegisError(detail) ==
    [status |-> 500, body |-> [error |-> "Failed to run AEGIS analysis", detail |-> detail]]

\* (mutant) the catch answers with an empty success
MarineErrorAsSuccess(detail) == [status |-> 200, body |-> [oil_spills |-> <<>>]]

MarineError(detail) ==
    [status |-> 500, body |-> [error |-> "Failed to run marine analysis", detail |-> detail]]

CascadeError(detail) ==
    [status |-> 500,
     body |-> [error |-> "Failed to run propagation simulation", detail |-> detail]]

\* ------------------------------------------------ the request bodies drawn
AegisBodies ==
    [scenario : {Undefined, Str(""), Str("Flood Event")},
     time_step : {Undefined, Num(0), Num(6)},
     manual_params : {Undefined, Null, Obj("manualParams")}]

MarineBodies ==
    [vessels : {Undefined, Null, Obj(<<>>), Obj(<<"vesselA">>)}]

CascadeBodies ==
    [source_lat : {Undefined, Num(19)},
     source_lon : {Undefined, Num(72)},
     source_type : {Undefined, Str(""), Str("Sewage Overflow")},
     flow_direction : {Undefined, Num(0), Num(90)},
     flow_speed : {Undefined, Num(0), Num(3)},
     simulation_hours : {Undefined, Num(0), Num(6), Num(30)}]

Bodies(rt) ==
    CASE rt = "aegis" -> AegisBodies
      [] rt = "marine" -> MarineBodies
      [] rt = "cascade" -> CascadeBodies

\* ------------------------------------- what the analysis service can return
\* One VesselStatus per vessel: the entry at position i is vessel IMO i.
ImoOf(i) == 9000000 + i

VesselEntries(i) ==
    [imo : {ImoOf(i)},
     status : {"normal", "suspicious", "distress"},
     vessel : {Undefined, Obj([imo |-> ImoOf(i)])}]

RECURSIVE StatusLists(_)
StatusLists(n) ==
    IF n = 0 THEN {<<>>}
    ELSE LET shorter == StatusLists(n - 1)
         IN shorter \cup {Append(s, e) : s \in {x \in shorter : Len(x) = n - 1},
                                         e \in VesselEntries(n)}

DetectorData ==
    [vessel_statuses : {Undefined} \cup {Obj(s) : s \in StatusLists(MaxVessels)},
     summary : {"fleetSummary"}]

FragilityData == {[zones |-> "zonesA"], [zones |-> "zonesB"]}

PropagationData == {[time_steps |-> "stepsA"], [time_steps |-> "stepsB"]}

\* detect_oil_spill's reply; it may or may not name the vessel itself
SpillData == {[probability |-> 90], [probability |-> 40, vessel_imo |-> 0]}

UpstreamData(rt) ==
    CASE rt = "aegis" -> FragilityData
      [] rt = "marine" -> DetectorData
      [] rt = "cascade" -> PropagationData

\* The analysis service validates simulate_propagation's input: a source position
\* is required and simulation_hours below 1 or above 24 is a ValidationError.
CoreAccepts(op, payload) ==
    op = "simulate_propagation" =>
        /\ payload.source_lat.t = "number"
        /\ payload.source_lon.t = "number"
        /\ payload.simulation_hours.t = "number"
        /\ payload.simulation_hours.v \in 1..24

\* ---------------------------------------------------- the upstream payloads
AegisPayload(b) ==
    [scenario |-> JsOr(b.scenario, Str("Normal")),
     time_step |-> JsOr(b.time_step, Num(0)),
     manual_params |-> JsOr(b.manual_params, Null)]

\* (mutant) vessels: req.body.vessels?.length ? req.body.vessels : null
MarinePayloadEmptyAsNone(b) ==
    [vessels |-> IF b.vessels.t = "object" /\ b.vessels.v # <<>> THEN b.vessels ELSE Null]

MarinePayload(b) == [vessels |-> JsOr(b.vessels, Null)]

CascadePayload(b) ==
    [source_lat |-> b.source_lat,
     source_lon |-> b.source_lon,
     source_type |-> JsOr(b.source_type, Str("Oil Spill")),
     flow_direction |-> JsOr(b.flow_direction, Num(180)),
     flow_speed |-> JsOr(b.flow_speed, Num(2)),
     simulation_hours |-> JsOr(b.simulation_hours, Num(12))]

Request(op, payload) == [op |-> op, payload |-> payload]

OkReply(op, data) == [op |-> op, ok |-> TRUE, data |-> data]

FailReply(op, msg) == [op |-> op, ok |-> FALSE, data |-> [message |-> msg]]

\* ------------------------------------------------- aegis: POST /analyze
\* try { ... await axios.post(predict_fragility, {...})
AegisStart(r) ==
    /\ route[r] = "aegis" /\ pc[r] = "start"
    /\ sent' = [sent EXCEPT ![r] = Append(@, Request("predict_fragility", AegisPayload(body[r])))]
    /\ pc' = [pc EXCEPT ![r] = "awaitPrimary"]
    /\ UNCHANGED beyondGateway
    /\ UNCHANGED <<route, body, upstream, replies, statuses, spillResults, idx, res>>

\* the await resolves: res.json(response.data)
AegisOk(r) ==
    /\ route[r] = "aegis" /\ pc[r] = "awaitPrimary"
    /\ CoreAccepts("predict_fragility", sent[r][Len(sent[r])].payload)
    /\ replies' = [replies EXCEPT ![r] = Append(@, OkReply("predict_fragility", upstream[r]))]
    /\ res' = [res EXCEPT ![r] = JsonResponse(upstream[r])]
    /\ pc' = [pc EXCEPT ![r] = "done"]
    /\ UNCHANGED beyondGateway
    /\ UNCHANGED <<route, body, upstream, sent, statuses, spillResults, idx>>

\* (mutant) the catch issues the request once more before giving up
AegisFailRetry(r) ==
    /\ route[r] = "aegis" /\ pc[r] = "awaitPrimary"
    /\ \E m \in FailureMessages :
        /\ replies' = [replies EXCEPT ![r] = Append(@, FailReply("predict_fragility", m))]
        /\ IF Len(sent[r]) < 2
           THEN /\ sent' = [sent EXCEPT ![r] = Append(@, sent[r][1])]
                /\ UNCHANGED <<res, pc>>
           ELSE /\ res' = [res EXCEPT ![r] = AegisError(m)]
                /\ pc' = [pc EXCEPT ![r] = "done"]
                /\ UNCHANGED sent
    /\ UNCHANGED beyondGateway
    /\ UNCHANGED <<route, body, upstream, statuses, spillResults, idx>>

\* the await rejects: catch (error) { res.status(500).json(...) }
AegisFail(r) ==
    /\ route[r] = "aegis" /\ pc[r] = "awaitPrimary"
    /\ \E m \in FailureMessages :
        /\ replies' = [replies EXCEPT ![r] = Append(@, FailReply("predict_fragility", m))]
        /\ res' = [res EXCEPT ![r] = AegisError(m)]
    /\ pc' = [pc EXCEPT ![r] = "done"]
    /\ UNCHANGED beyondGateway
    /\ UNCHANGED <<route, body, upstream, sent, statuses, spillResults, idx>>

\* ----------------------------------------------- cascade: POST /simulate
CascadeStart(r) ==
    /\ route[r] = "cascade" /\ pc[r] = "start"
    /\ sent' = [sent EXCEPT ![r] =
                    Append(@, Request("simulate_propagation", CascadePayload(body[r])))]
    /\ pc' = [pc EXCEPT ![r] = "awaitPrimary"]
    /\ UNCHANGED beyondGateway
    /\ UNCHANGED <<route, body, upstream, replies, statuses, spillResults, idx, res>>

CascadeOk(r) ==
    /\ route[r] = "cascade" /\ pc[r] = "awaitPrimary"
    /\ CoreAccepts("simulate_propagation", sent[r][Len(sent[r])].payload)
    /\ replies' = [replies EXCEPT ![r] = Append(@, OkReply("simulate_propagation", upstream[r]))]
    /\ res' = [res EXCEPT ![r] = JsonResponse(upstream[r])]
    /\ pc' = [pc EXCEPT ![r] = "done"]
    /\ UNCHANGED beyondGateway
    /\ UNCHANGED <<route, body, upstream, sent, statuses, spillResults, idx>>

CascadeFail(r) ==
    /\ route[r] = "cascade" /\ pc[r] = "awaitPrimary"
    /\ \E m \in FailureMessages :
        /\ replies' = [replies EXCEPT ![r] = Append(@, FailReply("simulate_propagation", m))]
        /\ res' = [res EXCEPT ![r] = CascadeError(m)]
    /\ pc' = [pc EXCEPT ![r] = "done"]
    /\ UNCHANGED beyondGateway
    /\ UNCHANGED <<route, body, upstream, sent, statuses, spillResults, idx>>

\* ------------------------------------------------- marine: POST /analyze
MarineStart(r) ==
    /\ route[r] = "marine" /\ pc[r] = "start"
    /\ sent' = [sent EXCEPT ![r] =
                    Append(@, Request("detect_vessel_anomaly", MarinePayload(body[r])))]
    /\ pc' = [pc EXCEPT ![r] = "awaitPrimary"]
    /\ UNCHANGED beyondGateway
    /\ UNCHANGED <<route, body, upstream, replies, statuses, spillResults, idx, res>>

\* if (vs.status === 'distress' && vs.vessel)
ShouldSpill(vs) == vs.status = "distress" /\ ~Falsy(vs.vessel)

\* (mutant) the loop breaks after its first spill call
NextSpillFirstOnly(st, from) ==
    IF from = 1 /\ \E j \in 1..Len(st) : ShouldSpill(st[j])
    THEN CHOOSE j \in 1..Len(st) :
            ShouldSpill(st[j]) /\ \A k \in 1..(j - 1) : ~ShouldSpill(st[k])
    ELSE Len(st) + 1

\* The for-of loop from position `from` up to the next entry it awaits a spill
\* call for; Len(st) + 1 when it runs off the end.
RECURSIVE NextSpill(_, _)
NextSpill(st, from) ==
    IF from > Len(st) THEN Len(st) + 1
    ELSE IF ShouldSpill(st[from]) THEN from
    ELSE NextSpill(st, from + 1)

\* (mutant) { vessel_imo: vs.imo, ...spillRes.data }
SpillEntryDataWins(data, vs) ==
    [f \in DOMAIN data \cup {"vessel_imo"} |-> IF f \in DOMAIN data THEN data[f] ELSE vs.imo]

\* { ...spillRes.data, vessel_imo: vs.imo }
SpillEntry(data, vs) ==
    [f \in DOMAIN data \cup {"vessel_imo"} |-> IF f = "vessel_imo" THEN vs.imo ELSE data[f]]

\* { ...response.data, oil_spills: spillResults }
MarineBody(data, results) ==
    [f \in DOMAIN data \cup {"oil_spills"} |-> IF f = "oil_spills" THEN results ELSE data[f]]

\* The loop resumes at position `from`: it either issues the next detect_oil_spill
\* request and suspends, or ends and the handler answers.
MarineLoop(r, from, st, results) ==
    LET j == NextSpill(st, from) IN
    /\ idx' = [idx EXCEPT ![r] = j]
    /\ IF j <= Len(st)
       THEN /\ sent' = [sent EXCEPT ![r] =
                            Append(@, Request("detect_oil_spill", [vessel |-> st[j].vessel]))]
            /\ pc' = [pc EXCEPT ![r] = "awaitSpill"]
            /\ res' = res
       ELSE /\ res' = [res EXCEPT ![r] = JsonResponse(MarineBody(upstream[r], results))]
            /\ pc' = [pc EXCEPT ![r] = "done"]
            /\ sent' = sent

\* detect_vessel_anomaly resolves:
\* statuses = response.data.vessel_statuses || []; spillResults = []; the loop starts
MarineDetectOk(r) ==
    /\ route[r] = "marine" /\ pc[r] = "awaitPrimary"
    /\ LET st == JsOr(upstream[r].vessel_statuses, Obj(<<>>)).v IN
        /\ replies' = [replies EXCEPT ![r] =
                            Append(@, OkReply("detect_vessel_anomaly", upstream[r]))]
        /\ statuses' = [statuses EXCEPT ![r] = st]
        /\ spillResults' = [spillResults EXCEPT ![r] = <<>>]
        /\ MarineLoop(r, 1, st, <<>>)
    /\ UNCHANGED beyondGateway
    /\ UNCHANGED <<route, body, upstream>>

\* detect_vessel_anomaly rejects: the outer catch
MarineDetectFail(r) ==
    /\ route[r] = "marine" /\ pc[r] = "awaitPrimary"
    /\ \E m \in FailureMessages :
        /\ replies' = [replies EXCEPT ![r] = Append(@, FailReply("detect_vessel_anomaly", m))]
        /\ res' = [res EXCEPT ![r] = MarineError(m)]
    /\ pc' = [pc EXCEPT ![r] = "done"]
    /\ UNCHANGED beyondGateway
    /\ UNCHANGED <<route, body, upstream, sent, statuses, spillResults, idx>>

\* (mutant) spillResults is a module-level array shared by all requests
MarineSpillOkShared(r) ==
    /\ route[r] = "marine" /\ pc[r] = "awaitSpill"
    /\ \E d \in SpillData :
        LET entry == SpillEntry(d, statuses[r][idx[r]]) IN
        /\ replies' = [replies EXCEPT ![r] = Append(@, OkReply("detect_oil_spill", d))]
        /\ spillResults' = [q \in Reqs |-> Append(spillResults[q], entry)]
        /\ MarineLoop(r, idx[r] + 1, statuses[r], Append(spillResults[r], entry))
    /\ UNCHANGED beyondGateway
    /\ UNCHANGED <<route, body, upstream, statuses>>

\* detect_oil_spill resolves: spillResults.push(...), the loop goes on
MarineSpillOk(r) ==
    /\ route[r] = "marine" /\ pc[r] = "awaitSpill"
    /\ \E d \in SpillData :
        LET results == Append(spillResults[r], SpillEntry(d, statuses[r][idx[r]])) IN
        /\ replies' = [replies EXCEPT ![r] = Append(@, OkReply("detect_oil_spill", d))]
        /\ spillResults' = [spillResults EXCEPT ![r] = results]
        /\ MarineLoop(r, idx[r] + 1, statuses[r], results)
    /\ UNCHANGED beyondGateway
    /\ UNCHANGED <<route, body, upstream, statuses>>

\* (mutant) the inner try/catch is missing: a rejected detect_oil_spill reaches the
\* outer catch
MarineSpillFailAborts(r) ==
    /\ route[r] = "marine" /\ pc[r] = "awaitSpill"
    /\ \E m \in FailureMessages :
        /\ replies' = [replies EXCEPT ![r] = Append(@, FailReply("detect_oil_spill", m))]
        /\ res' = [res EXCEPT ![r] = MarineError(m)]
    /\ pc' = [pc EXCEPT ![r] = "done"]
    /\ UNCHANGED beyondGateway
    /\ UNCHANGED <<route, body, upstream, sent, statuses, spillResults, idx>>

\* detect_oil_spill rejects: the inner catch logs it, the loop goes on
MarineSpillFail(r) ==
    /\ route[r] = "marine" /\ pc[r] = "awaitSpill"
    /\ \E m \in FailureMessages :
        replies' = [replies EXCEPT ![r] = Append(@, FailReply("detect_oil_spill", m))]
    /\ MarineLoop(r, idx[r] + 1, statuses[r], spillResults[r])
    /\ UNCHANGED beyondGateway
    /\ UNCHANGED <<route, body, upstream, statuses, spillResults>>

\* ------------------------------------- the AEGIS and Marine monitor pages
Pages == {"aegis", "marine"}

\* The summary counts each page shows as cards.
SummaryFields(page) ==
    IF page = "aegis" THEN {"critical_count", "warning_count"}
    ELSE {"total", "normal", "suspicious", "distress"}

CountValues == {Undefined, Num(0), Num(3)}

\* res.data of a successful analyze response: the summary, or some of its counts,
\* may be missing.
PageData(page) ==
    {[summary |-> Undefined]} \cup
    {[summary |-> Obj(c)] : c \in [SummaryFields(page) -> CountValues]}

\* err.response?.data?.error || '<fallback>'
FallbackMessage(page) ==
    IF page = "aegis" THEN "Analysis failed. Make sure backend services are running."
    ELSE "Analysis failed. Ensure backend services are running."

GatewayErrorMessage(page) ==
    IF page = "aegis" THEN "Failed to run AEGIS analysis" ELSE "Failed to run marine analysis"

ShownError(page, responseError) == JsOr(responseError, Str(FallbackMessage(page))).v

\* o?.f
OptField(o, f) == IF o.t \in {"undefined", "null"} THEN Undefined ELSE o.v[f]

\* The value of each summary card: result.summary?.<f> || 0
SummaryCards(page, result) ==
    [f \in SummaryFields(page) |-> JsOr(OptField(result.summary, f), Num(0))]

\* ---- the AEGIS input panel
\* const SCENARIOS (two of the four presets are enumerated)
SCENARIOS == {"Normal", "Flood Event"}

\* positions of the "hours ahead" slider: <input type="range" min="0" max="24">
TimeSteps == {0, 24}

\* useState({rainfall: 5, power_availability: 0.9, tanker_count: 10,
\*           groundwater_level: 5, demand_surge: 1.0, price_index: 1.0}), in tenths
DefaultManualParams ==
    [rainfall |-> Num(50), power_availability |-> Num(9), tanker_count |-> Num(100),
     groundwater_level |-> Num(50), demand_surge |-> Num(10), price_index |-> Num(10)]

\* What a user leaves in one of the <input type="number" step="0.1"> boxes: the
\* box emptied, or a decimal number; the input has no min and no max.
TypedTexts == {"", "0.5", "5", "-1"}

\* The boxes the user types into (the other four keep their initial values).
EditedKeys == {"power_availability", "rainfall"}

\* parseFloat(text), in tenths
ParseFloat(text) ==
    CASE text = "" -> NaN
      [] text = "0.5" -> Num(5)
      [] text = "5" -> Num(50)
      [] text = "-1" -> Num(-10)

\* parseFloat(e.target.value) || 0
TypedParam(text) == JsOr(ParseFloat(text), Num(0))

\* The body runAnalysis posts to /api/<page>/analyze: the AEGIS page builds it
\* from the input panel, the Marine page posts {}.
PagePayload(page) ==
    IF page = "aegis"
    THEN [scenario |-> IF fmMode = "scenario" THEN Str(fmScenario) ELSE Str("Normal"),
          time_step |-> Num(fmTimeStep),
          manual_params |-> IF fmMode = "manual" THEN Obj(fmManual) ELSE Null]
    ELSE [vessels |-> Undefined]

\* onClick={() => setMode(m)}
SetMode ==
    /\ pgPage = "aegis"
    /\ \E md \in {"scenario", "manual"} : fmMode' = md
    /\ UNCHANGED <<fmScenario, fmTimeStep, fmManual>>
    /\ UNCHANGED <<beyondPage, pgVars>>

\* <select value={scenario} onChange={e => setScenario(e.target.value)}>
SetScenario ==
    /\ pgPage = "aegis" /\ fmMode = "scenario"
    /\ \E s \in SCENARIOS : fmScenario' = s
    /\ UNCHANGED <<fmMode, fmTimeStep, fmManual>>
    /\ UNCHANGED <<beyondPage, pgVars>>

\* onChange={e => setTimeStep(parseInt(e.target.value))}
SetTimeStep ==
    /\ pgPage = "aegis" /\ fmMode = "scenario"
    /\ \E t \in TimeSteps : fmTimeStep' = t
    /\ UNCHANGED <<fmMode, fmScenario, fmManual>>
    /\ UNCHANGED <<beyondPage, pgVars>>

\* onChange={e => setManualParams(p => ({...p, [key]: parseFloat(e.target.value) || 0}))}
SetManualParam ==
    /\ pgPage = "aegis" /\ fmMode = "manual"
    /\ \E key \in EditedKeys : \E text \in TypedTexts :
        fmManual' = [fmManual EXCEPT ![key] = TypedParam(text)]
    /\ UNCHANGED <<fmMode, fmScenario, fmTimeStep>>
    /\ UNCHANGED <<beyondPage, pgVars>>

\* onClick={runAnalysis} (the button is disabled while loading; runs started by the
\* Marine page's auto-refresh timer while one is in flight are left out):
\* setLoading(true); setError(''); await axios.post('/api/<page>/analyze', ...)
RunAnalysis ==
    /\ pgPc = "idle" /\ ~pgLoading
    /\ pgLoading' = TRUE
    /\ pgError' = ""
    /\ pgAnalyzed' = FALSE
    /\ pgPc' = "awaitAnalyze"
    /\ pgPosted' = PagePayload(pgPage)
    /\ UNCHANGED <<beyondPage, fmVars>>
    /\ UNCHANGED <<pgPage, pgUser, pgResult>>

\* the analyze request rejects: catch (err) { setError(...) }  setLoading(false)
AnalyzeFail ==
    /\ pgPc = "awaitAnalyze"
    /\ \E e \in {Undefined, Str(GatewayErrorMessage(pgPage))} :
        pgError' = ShownError(pgPage, e)
    /\ pgLoading' = FALSE
    /\ pgPc' = "idle"
    /\ UNCHANGED <<beyondPage, fmVars>>
    /\ UNCHANGED <<pgPage, pgUser, pgResult, pgAnalyzed, pgPosted>>

\* the analyze request resolves: setResult(res.data); if (user) the history body is
\* built (res.data.summary.<count> throws a TypeError when summary is missing) and
\* await axios.post('/api/user/history', ...); otherwise setLoading(false)
AnalyzeOk ==
    /\ pgPc = "awaitAnalyze"
    /\ \E d \in PageData(pgPage) :
        /\ pgResult' = Obj(d)
        /\ IF Falsy(pgUser)
           THEN pgLoading' = FALSE /\ pgPc' = "idle" /\ pgError' = pgError
           ELSE IF d.summary.t = "undefined"
           THEN /\ pgError' = ShownError(pgPage, Undefined)
                /\ pgLoading' = FALSE /\ pgPc' = "idle"
           ELSE pgLoading' = pgLoading /\ pgPc' = "awaitHistory" /\ pgError' = pgError
    /\ pgAnalyzed' = TRUE
    /\ UNCHANGED <<beyondPage, fmVars>>
    /\ UNCHANGED <<pgPage, pgUser, pgPosted>>

\* POST /api/user/history resolves: setLoading(false)
HistoryOk ==
    /\ pgPc = "awaitHistory"
    /\ pgLoading' = FALSE
    /\ pgPc' = "idle"
    /\ UNCHANGED <<beyondPage, fmVars>>
    /\ UNCHANGED <<pgPage, pgUser, pgError, pgResult, pgAnalyzed, pgPosted>>

\* POST /api/user/history rejects: the same catch: setError(...); setLoading(false)
HistoryFail ==
    /\ pgPc = "awaitHistory"
    /\ \E e \in {Undefined, Str("Failed to save analysis")} :
        pgError' = ShownError(pgPage, e)
    /\ pgLoading' = FALSE
    /\ pgPc' = "idle"
    /\ UNCHANGED <<beyondPage, fmVars>>
    /\ UNCHANGED <<pgPage, pgUser, pgResult, pgAnalyzed, pgPosted>>

\* ------------------------------------- the Cascade Simulator page
\* const SOURCE_TYPES
SOURCE_TYPES == {"Oil Spill", "Sewage Overflow", "Industrial Discharge"}

\* The values the browser lets a range input take lie between its min and its
\* max; the two ends and the initial position are enumerated.
\* <input type="range" min="0" max="360">
DirectionPositions == {0, 180, 360}

\* <input type="range" min="0.5" max="5" step="0.1">, in tenths
SpeedPositions == {20, 50}

\* (mutant) <input type="range" min="0" max="24">
DurationPositionsFromZero == {0, 12, 24}

\* <input type="range" min="6" max="24">
DurationPositions == {6, 12, 24}

\* e.latlng of a click on the map
MapPoints == {Obj([lat |-> Num(19), lng |-> Num(72)])}

\* res.data of a successful simulation: the hourly time steps
SimulationData ==
    {[time_steps |-> Obj(<<"step0">>)], [time_steps |-> Obj(<<"step0", "step1">>)]}

NoSourceMessage == "Please click on the map to set contamination source location."

CascadeFallbackMessage == "Simulation failed. Ensure backend services are running."

\* The body runSimulation posts.
SimulatePayload ==
    [source_lat |-> OptField(csSourceLocation, "lat"),
     source_lon |-> OptField(csSourceLocation, "lng"),
     source_type |-> Str(csSourceType),
     flow_direction |-> Num(csFlowDirection),
     flow_speed |-> Num(csFlowSpeed),
     simulation_hours |-> Num(csSimHours)]

\* onChange={e => setSourceType(e.target.value)}
SetSourceType ==
    /\ csPc # "none"
    /\ \E t \in SOURCE_TYPES : csSourceType' = t
    /\ UNCHANGED <<csSourceLocation, csFlowDirection, csFlowSpeed, csSimHours>>
    /\ UNCHANGED <<csCurrentHour, csResult, csLoading, csError, csPc, csPosted>>
    /\ UNCHANGED beyondCascade

\* onChange={e => setFlowDirection(parseInt(e.target.value))}
SetFlowDirection ==
    /\ csPc # "none"
    /\ \E d \in DirectionPositions : csFlowDirection' = d
    /\ UNCHANGED <<csSourceType, csSourceLocation, csFlowSpeed, csSimHours>>
    /\ UNCHANGED <<csCurrentHour, csResult, csLoading, csError, csPc, csPosted>>
    /\ UNCHANGED beyondCascade

\* onChange={e => setFlowSpeed(parseFloat(e.target.value))}
SetFlowSpeed ==
    /\ csPc # "none"
    /\ \E s \in SpeedPositions : csFlowSpeed' = s
    /\ UNCHANGED <<csSourceType, csSourceLocation, csFlowDirection, csSimHours>>
    /\ UNCHANGED <<csCurrentHour, csResult, csLoading, csError, csPc, csPosted>>
    /\ UNCHANGED beyondCascade

\* onChange={e => setSimHours(parseInt(e.target.value))}
SetSimHours ==
    /\ csPc # "none"
    /\ \E h \in DurationPositions : csSimHours' = h
    /\ UNCHANGED <<csSourceType, csSourceLocation, csFlowDirection, csFlowSpeed>>
    /\ UNCHANGED <<csCurrentHour, csResult, csLoading, csError, csPc, csPosted>>
    /\ UNCHANGED beyondCascade

\* handleMapClick: setSourceLocation(latlng)
MapClick ==
    /\ csPc # "none"
    /\ \E l \in MapPoints : csSourceLocation' = l
    /\ UNCHANGED <<csSourceType, csFlowDirection, csFlowSpeed, csSimHours>>
    /\ UNCHANGED <<csCurrentHour, csResult, csLoading, csError, csPc, csPosted>>
    /\ UNCHANGED beyondCascade

\* the time slider under the map, shown once there is a result:
\* <input type="range" min="0" max={result.time_steps.length - 1}>
SetCurrentHour ==
    /\ csPc # "none" /\ csResult # Null
    /\ \E h \in 0..(Len(csResult.v.time_steps.v) - 1) : csCurrentHour' = h
    /\ UNCHANGED <<csControls, csResult, csLoading, csError, csPc, csPosted>>
    /\ UNCHANGED beyondCascade

\* (mutant) runSimulation without its first line: the request is built with
\* sourceLocation?.lat and sent whether or not a source is set
RunSimulationUnguarded ==
    /\ csPc = "idle" /\ ~csLoading
    /\ csLoading' = TRUE
    /\ csError' = ""
    /\ csPosted' = SimulatePayload
    /\ csPc' = "awaitSimulate"
    /\ UNCHANGED <<csControls, csCurrentHour, csResult>>
    /\ UNCHANGED beyondCascade

\* onClick={runSimulation} (the button is disabled while loading):
\* if (!sourceLocation) { setError(...); return; }
\* setLoading(true); setError(''); await axios.post('/api/cascade/simulate', ...)
RunSimulation ==
    /\ csPc = "idle" /\ ~csLoading
    /\ IF Falsy(csSourceLocation)
       THEN /\ csError' = NoSourceMessage
            /\ UNCHANGED <<csLoading, csPosted, csPc>>
       ELSE /\ csLoading' = TRUE
            /\ csError' = ""
            /\ csPosted' = SimulatePayload
            /\ csPc' = "awaitSimulate"
    /\ UNCHANGED <<csControls, csCurrentHour, csResult>>
    /\ UNCHANGED beyondCascade

\* the request resolves: setResult(res.data); setCurrentHour(0); setLoading(false)
SimulateOk ==
    /\ csPc = "awaitSimulate"
    /\ \E d \in SimulationData : csResult' = Obj(d)
    /\ csCurrentHour' = 0
    /\ csLoading' = FALSE
    /\ csPc' = "idle"
    /\ UNCHANGED <<csControls, csError, csPosted>>
    /\ UNCHANGED beyondCascade

\* the request rejects: setError(err.response?.data?.error || '...'); setLoading(false)
SimulateFail ==
    /\ csPc = "awaitSimulate"
    /\ \E e \in {Undefined, Str("Failed to run propagation simulation")} :
        csError' = JsOr(e, Str(CascadeFallbackMessage)).v
    /\ csLoading' = FALSE
    /\ csPc' = "idle"
    /\ UNCHANGED <<csControls, csCurrentHour, csResult, csPosted>>
    /\ UNCHANGED beyondCascade

\* ------------------------------------- routing and authentication
\* <Route> paths of App: the pages inside <ProtectedRoute><DashboardLayout />
ProtectedPaths ==
    {"/dashboard", "/aegis", "/marine", "/cascade", "/aquahear", "/alerts", "/reports"}

\* every path a user can ask for; "/nowhere" stands for the paths only "*" matches
Paths == {"/", "/login", "/nowhere"} \cup ProtectedPaths

Location(path, state) == [pathname |-> path, state |-> state]

\* What a route element renders.
Spinner == [kind |-> "spinner"]

Children == [kind |-> "children"]

\* <Navigate to={to} state={state} replace />
Navigate(to, state) == [kind |-> "navigate", to |-> to, state |-> state]

\* (mutant) the two checks of ProtectedRoute in the other order, the second one
\* without regard to loading
ProtectedRouteUserFirst(loading, user, location) ==
    IF ~Falsy(user) THEN Children
    ELSE IF loading THEN Children
    ELSE Navigate("/login", Obj([from |-> Obj(location)]))

\* ProtectedRoute({ children })
ProtectedRoute(loading, user, location) ==
    IF loading THEN Spinner
    ELSE IF Falsy(user) THEN Navigate("/login", Obj([from |-> Obj(location)]))
    ELSE Children

\* (mutant) PublicRoute without its if (user) branch
PublicRouteNoRedirect(loading, user) ==
    IF loading THEN Spinner ELSE Children

\* PublicRoute({ children })
PublicRoute(loading, user) ==
    IF loading THEN Spinner
    ELSE IF ~Falsy(user) THEN Navigate("/dashboard", Undefined)
    ELSE Children

\* <Routes>: what the element matching `location` renders
Rendered(loading, user, location) ==
    CASE location.pathname = "/" -> Children
      [] location.pathname = "/login" -> PublicRoute(loading, user)
      [] location.pathname \in ProtectedPaths -> ProtectedRoute(loading, user, location)
      [] OTHER -> Navigate("/", Undefined)

\* The Login page is on screen.
LoginMounted(loading, user, location) ==
    location.pathname = "/login" /\ Rendered(loading, user, location) = Children

\* const from = location.state?.from?.pathname || '/dashboard'
\* (a location's pathname is never the empty string)
From(location) ==
    LET from == OptField(location.state, "from") IN
    IF Falsy(from) THEN "/dashboard" ELSE from.v.pathname

\* The Login page's own state over a step that leaves the auth state and the
\* location as given: kept while the page stays mounted, gone (and fresh on the
\* next mount) once it is not; a handler that is running goes on either way.
LoginCarried(loading, user, location) ==
    LET kept == LoginMounted(auLoading, auUser, auLoc) /\ LoginMounted(loading, user, location)
    IN /\ lgError' = IF kept THEN lgError ELSE ""
       /\ lgLoading' = IF kept THEN lgLoading ELSE FALSE
       /\ lgAlive' = (lgAlive /\ kept)

\* The user follows a link or enters a path.
Visit ==
    /\ auNav # "none"
    /\ \E path \in Paths :
        /\ auLoc' = Location(path, Undefined)
        /\ auRequested' = path
        /\ LoginCarried(auLoading, auUser, Location(path, Undefined))
    /\ auPrev' = auLoc
    /\ auNav' = "visit"
    /\ lgOutcome' = "none"
    /\ UNCHANGED <<auLoading, auUser, auSign, lgPc, lgKind, lgFrom>>
    /\ UNCHANGED beyondAuth

\* The session check at start-up finishes: nobody, or the user of a kept session.
SessionChecked ==
    /\ auLoading
    /\ auLoading' = FALSE
    /\ \E u \in {Null, Obj([uid |-> "u1"])} :
        /\ auUser' = u
        /\ LoginCarried(FALSE, u, auLoc)
    /\ UNCHANGED <<auSign, auLoc, auPrev, auNav, auRequested, lgPc, lgKind, lgFrom, lgOutcome>>
    /\ UNCHANGED beyondAuth

\* A rendered <Navigate> takes effect: navigate(to, { replace, state }).
Redirect ==
    LET view == Rendered(auLoading, auUser, auLoc) IN
    /\ auNav # "none"
    /\ view.kind = "navigate"
    /\ auLoc' = Location(view.to, view.state)
    /\ auPrev' = auLoc
    /\ auNav' = CASE auLoc.pathname = "/login" -> "public"
                  [] auLoc.pathname \in ProtectedPaths -> "protected"
                  [] OTHER -> "catchall"
    /\ LoginCarried(auLoading, auUser, Location(view.to, view.state))
    /\ UNCHANGED <<auLoading, auUser, auSign, auRequested, lgPc, lgKind, lgFrom, lgOutcome>>
    /\ UNCHANGED beyondAuth

\* onClick={() => { setIsRegister(!isRegister); setError(''); }}
ToggleRegister ==
    /\ LoginMounted(auLoading, auUser, auLoc)
    /\ lgError' = ""
    /\ lgOutcome' = "none"
    /\ UNCHANGED <<auVars, lgLoading, lgPc, lgKind, lgFrom, lgAlive>>
    /\ UNCHANGED beyondAuth

\* handleSubmit / handleGoogle up to their await (the buttons are disabled while
\* loading): setError(''); setLoading(true); await login(...) | register(...) |
\* loginWithGoogle().  The provider will accept or reject what was entered.
SignInStart ==
    /\ LoginMounted(auLoading, auUser, auLoc)
    /\ lgPc = "idle" /\ ~lgLoading
    /\ \E kind \in {"login", "register", "google"} : lgKind' = kind
    /\ \E verdict \in {"accepted", "rejected"} : auSign' = verdict
    /\ lgError' = ""
    /\ lgLoading' = TRUE
    /\ lgPc' = "awaiting"
    /\ lgFrom' = From(auLoc)
    /\ lgAlive' = TRUE
    /\ lgOutcome' = "pending"
    /\ UNCHANGED <<auLoading, auUser, auLoc, auPrev, auNav, auRequested>>
    /\ UNCHANGED beyondAuth

\* The auth-state update of an accepted sign-in reaches the components.
AuthStateUpdate ==
    /\ auSign = "accepted" /\ Falsy(auUser)
    /\ auUser' = Obj([uid |-> "u1"])
    /\ LoginCarried(auLoading, Obj([uid |-> "u1"]), auLoc)
    /\ UNCHANGED <<auLoading, auSign, auLoc, auPrev, auNav, auRequested,
                   lgPc, lgKind, lgFrom, lgOutcome>>
    /\ UNCHANGED beyondAuth

\* The sign-in promise resolves: navigate(from, { replace: true }); setLoading(false)
SignInResolves ==
    /\ lgPc = "awaiting" /\ auSign = "accepted"
    /\ auLoc' = Location(lgFrom, Undefined)
    /\ auPrev' = auLoc
    /\ auNav' = "signin"
    /\ LET kept == lgAlive /\ LoginMounted(auLoading, auUser, Location(lgFrom, Undefined)) IN
        /\ lgError' = IF kept THEN lgError ELSE ""
        /\ lgAlive' = kept
    /\ lgLoading' = FALSE
    /\ lgPc' = "idle"
    /\ lgOutcome' = IF lgOutcome = "pending" THEN "signedIn" ELSE lgOutcome
    /\ UNCHANGED <<auLoading, auUser, auSign, auRequested, lgKind, lgFrom>>
    /\ UNCHANGED beyondAuth

\* err.message of a rejected sign-in
SignInErrors == {Undefined, Str("Firebase: "), Str("Firebase: Error (auth/wrong-password).")}

\* err.message?.replace('Firebase: ', '')
StripFirebase(message) ==
    CASE message = Undefined -> Undefined
      [] message = Str("Firebase: ") -> Str("")
      [] message = Str("Firebase: Error (auth/wrong-password).") ->
            Str("Error (auth/wrong-password).")

SignInFallback(kind) ==
    IF kind = "google" THEN "Google sign-in failed" ELSE "Authentication failed"

\* The sign-in promise rejects: setError(... || '<fallback>'); setLoading(false).
\* Setting the state of a Login that is no longer mounted does nothing.
SignInRejects ==
    /\ lgPc = "awaiting" /\ auSign = "rejected"
    /\ \E message \in SignInErrors :
        lgError' = IF lgAlive
                   THEN JsOr(StripFirebase(message), Str(SignInFallback(lgKind))).v
                   ELSE lgError
    /\ lgLoading' = IF lgAlive THEN FALSE ELSE lgLoading
    /\ lgPc' = "idle"
    /\ auSign' = "none"
    /\ lgOutcome' = IF lgOutcome = "pending" THEN "failed" ELSE lgOutcome
    /\ UNCHANGED <<auLoading, auUser, auLoc, auPrev, auNav, auRequested, lgKind, lgFrom, lgAlive>>
    /\ UNCHANGED beyondAuth

\* ------------------------------------- the in-memory history store
\* The clock when the server starts (a small number, so that ids grow a digit).
Epoch == 35

Digits36 ==
    <<"0", "1", "2", "3", "4", "5", "6", "7", "8", "9", "a", "b", "c", "d", "e", "f",
      "g", "h", "i", "j", "k", "l", "m", "n", "o", "p", "q", "r", "s", "t", "u", "v",
      "w", "x", "y", "z">>

\* n.toString(36), as the sequence of its digits
RECURSIVE ToString36(_)
ToString36(n) ==
    IF n < 36 THEN <<Digits36[n + 1]>>
    ELSE ToString36(n \div 36) \o <<Digits36[(n % 36) + 1]>>

\* new Date().toISOString() at instant ms: the text is kept as the instant it spells
ToISOString(ms) == [t |-> "string", iso |-> ms]

\* req.body of POST /api/user/history: with or without userId and product, and
\* one that also has analysisType, summary and data
HistoryBodies ==
    {[userId |-> u, product |-> p, analysisType |-> Undefined, summary |-> Undefined,
      data |-> Undefined] : u \in {Undefined, Str("u1"), Str("u2")},
                            p \in {Undefined, Str("AEGIS")}}
    \cup
    {[userId |-> Str("u1"), product |-> Str("Marine"), analysisType |-> Str("Vessel Scan"),
      summary |-> Str("2 anomalies"), data |-> Obj("resultA")]}

\* req.query.userId of GET /api/user/history
HistoryQueries == {Undefined, Str("u1"), Str("u2")}

\* const entry = { userId, product, analysisType: analysisType || 'general',
\*                 summary: summary || '', data, timestamp: Date.now(),
\*                 date: new Date().toISOString() }
\* const localEntry = { id: Date.now().toString(36), ...entry }
\* (the handler runs without a pause: its readings of the clock are taken to fall
\* into one millisecond, `at`)
LocalEntry(b, at) ==
    [id |-> Str(ToString36(at)),
     userId |-> b.userId,
     product |-> b.product,
     analysisType |-> JsOr(b.analysisType, Str("general")),
     summary |-> JsOr(b.summary, Str("")),
     data |-> b.data,
     timestamp |-> Num(at),
     date |-> ToISOString(at)]

\* (mutant) analysisHistory.slice(0, 500)
TrimmedOldest(list) ==
    IF Len(list) > StoreCap THEN SubSeq(list, 1, StoreCap) ELSE list

\* if (analysisHistory.length > 500) analysisHistory = analysisHistory.slice(-500)
Trimmed(list) ==
    IF Len(list) > StoreCap THEN SubSeq(list, Len(list) - StoreCap + 1, Len(list)) ELSE list

\* .filter(h => h.userId === userId)
RECURSIVE FilterUser(_, _)
FilterUser(list, userId) ==
    IF list = <<>> THEN <<>>
    ELSE IF Head(list).userId = userId
    THEN <<Head(list)>> \o FilterUser(Tail(list), userId)
    ELSE FilterUser(Tail(list), userId)

\* .sort((a, b) => b.timestamp - a.timestamp): Array.prototype.sort is stable, so
\* entries of one timestamp stay in the order they had
RECURSIVE SortNewestFirst(_)
SortNewestFirst(list) ==
    IF list = <<>> THEN <<>>
    ELSE LET e == list[Len(list)]
             sorted == SortNewestFirst(SubSeq(list, 1, Len(list) - 1))
             k == Cardinality({i \in 1..Len(sorted) : sorted[i].timestamp.v >= e.timestamp.v})
         IN SubSeq(sorted, 1, k) \o <<e>> \o SubSeq(sorted, k + 1, Len(sorted))

\* (mutant) .slice(-50)
LastPage(list) == SubSeq(list, IF Len(list) < PageCap THEN 1 ELSE Len(list) - PageCap + 1, Len(list))

\* .slice(0, 50)
FirstPage(list) == SubSeq(list, 1, IF Len(list) < PageCap THEN Len(list) ELSE PageCap)

\* (mutant) if (!userId)
IncompleteUserOnly(b) == Falsy(b.userId)

\* if (!userId || !product)
Incomplete(b) == Falsy(b.userId) \/ Falsy(b.product)

\* A millisecond passes.
Tick ==
    /\ hsNow >= Epoch
    /\ hsNow < Epoch + MaxTicks
    /\ hsNow' = hsNow + 1
    /\ UNCHANGED <<analysisHistory, hsSaved, hsReq, hsRes>>
    /\ UNCHANGED beyondHistory

\* router.post('/history') with no Firestore (db undefined): 400 without userId or
\* product; otherwise the entry is pushed, the store trimmed and the entry returned.
PostHistory ==
    /\ hsNow >= Epoch
    /\ \E b \in HistoryBodies :
        /\ hsReq' = [method |-> "POST", body |-> b]
        /\ IF Incomplete(b)
           THEN /\ hsRes' = [status |-> 400,
                             body |-> [error |-> "userId and product are required"]]
                /\ UNCHANGED <<analysisHistory, hsNow, hsSaved>>
           ELSE /\ Len(hsSaved) < MaxSaves
                /\ LET localEntry == LocalEntry(b, hsNow) IN
                    /\ analysisHistory' = Trimmed(Append(analysisHistory, localEntry))
                    /\ hsSaved' = Append(hsSaved, localEntry)
                    /\ hsRes' = [status |-> 200,
                                 body |-> [success |-> TRUE, entry |-> localEntry]]
                /\ hsNow' = hsNow
    /\ UNCHANGED beyondHistory

\* (mutant) analysisHistory.sort(...).filter(...).slice(0, 50): sort orders its
\* receiver in place, here the store
ReceiverSortedInPlace(list, userId) == SortNewestFirst(list)

\* What analysisHistory.filter(...).sort(...).slice(0, 50) leaves in the array it
\* starts from: filter and slice read their receiver and build a new array each;
\* sort orders its receiver in place, and its receiver is the array filter built
ReceiverAfterChain(list, userId) == list

\* router.get('/history') with no Firestore: 400 without userId; otherwise the
\* user's entries, newest first, at most 50
GetHistory ==
    /\ hsNow >= Epoch
    /\ \E userId \in HistoryQueries :
        /\ hsReq' = [method |-> "GET", userId |-> userId]
        /\ IF Falsy(userId)
           THEN /\ hsRes' = [status |-> 400,
                             body |-> [error |-> "userId query param required"]]
                /\ UNCHANGED analysisHistory
           ELSE /\ hsRes' = [status |-> 200,
                             body |-> [history |->
                               FirstPage(SortNewestFirst(FilterUser(analysisHistory, userId)))]]
                /\ analysisHistory' = ReceiverAfterChain(analysisHistory, userId)
    /\ UNCHANGED <<hsNow, hsSaved>>
    /\ UNCHANGED beyondHistory

\* ------------------------------------------------------- specifications
NoBody == [none |-> TRUE]

\* The handlers' locals before any handler has run.
GatewayFresh ==
    /\ pc = [r \in Reqs |-> IF route[r] = "none" THEN "none" ELSE "start"]
    /\ sent = [r \in Reqs |-> <<>>]
    /\ replies = [r \in Reqs |-> <<>>]
    /\ statuses = [r \in Reqs |-> <<>>]
    /\ spillResults = [r \in Reqs |-> <<>>]
    /\ idx = [r \in Reqs |-> 0]
    /\ res = [r \in Reqs |-> NoResponse]

\* The AEGIS input panel as mounted.
PanelFresh ==
    /\ fmMode = "scenario" /\ fmScenario = "Normal" /\ fmTimeStep = 0
    /\ fmManual = DefaultManualParams

\* The Cascade Simulator page as mounted, in the position `at` of runSimulation.
CascadeFresh(at) ==
    /\ csSourceType = "Oil Spill" /\ csSourceLocation = Null
    /\ csFlowDirection = 180 /\ csFlowSpeed = 20 /\ csSimHours = 12
    /\ csCurrentHour = 0 /\ csResult = Null /\ csLoading = FALSE /\ csError = ""
    /\ csPc = at /\ csPosted = NoBody

\* The application as loaded at `path`: the session check is running, nobody is
\* signed in, the Login page has its initial state.
AuthFresh(nav, path) ==
    /\ auLoading = TRUE /\ auUser = Null /\ auSign = "none"
    /\ auLoc = Location(path, Undefined) /\ auPrev = Location(path, Undefined)
    /\ auNav = nav /\ auRequested = path
    /\ lgError = "" /\ lgLoading = FALSE /\ lgPc = "idle" /\ lgKind = "login"
    /\ lgFrom = "/dashboard" /\ lgAlive = FALSE /\ lgOutcome = "none"

\* The history routes as loaded, the clock showing `now`: nothing stored.
StoreFresh(now) ==
    /\ analysisHistory = <<>> /\ hsNow = now /\ hsSaved = <<>>
    /\ hsReq = NoBody /\ hsRes = NoResponse

\* The parts of the program that are looked at only in specifications of their
\* own are not running.
OthersIdle == CascadeFresh("none") /\ AuthFresh("none", "/") /\ StoreFresh(0)

\* No page is mounted (the gateway alone is looked at).
PageUnmounted ==
    /\ pgPage = "none" /\ pgUser = Null /\ pgPc = "none"
    /\ pgLoading = FALSE /\ pgError = "" /\ pgResult = Null /\ pgAnalyzed = FALSE
    /\ pgPosted = NoBody
    /\ PanelFresh

\* The gateway serves no request (a page alone is looked at).
GatewayIdle ==
    /\ route = [r \in Reqs |-> "none"]
    /\ body = [r \in Reqs |-> NoBody]
    /\ upstream = [r \in Reqs |-> NoBody]
    /\ GatewayFresh

\* One request, of any route, with any body and any result of the analysis service.
Init ==
    /\ \E rt \in Routes : \E b \in Bodies(rt) : \E u \in UpstreamData(rt) :
        /\ route = [r \in Reqs |-> IF r = 1 THEN rt ELSE "none"]
        /\ body = [r \in Reqs |-> IF r = 1 THEN b ELSE NoBody]
        /\ upstream = [r \in Reqs |-> IF r = 1 THEN u ELSE NoBody]
    /\ GatewayFresh
    /\ PageUnmounted
    /\ OthersIdle

Next ==
    \E r \in Reqs :
        \/ AegisStart(r) \/ AegisOk(r) \/ AegisFail(r)
        \/ MarineStart(r) \/ MarineDetectOk(r) \/ MarineDetectFail(r)
        \/ MarineSpillOk(r) \/ MarineSpillFail(r)
        \/ CascadeStart(r) \/ CascadeOk(r) \/ CascadeFail(r)

vars == <<gwVars, pgVars, fmVars, csVars, auVars, lgVars, hsVars>>

Spec == Init /\ [][Next]_vars

\* Concurrent requests: every slot holds a request, each with a well-formed body;
\* marine requests get a detector result of one or two distress vessels.
ConcBody(rt) ==
    CASE rt = "aegis" -> [scenario |-> Str("Flood Event"), time_step |-> Num(6),
                          manual_params |-> Undefined]
      [] rt = "marine" -> [vessels |-> Undefined]
      [] rt = "cascade" -> [source_lat |-> Num(19), source_lon |-> Num(72),
                            source_type |-> Str("Sewage Overflow"),
                            flow_direction |-> Num(90), flow_speed |-> Num(3),
                            simulation_hours |-> Num(6)]

ConcUpstream(rt) ==
    IF rt = "marine"
    THEN {d \in DetectorData :
            /\ d.vessel_statuses.t = "object"
            /\ Len(d.vessel_statuses.v) \in {1, 2}
            /\ \A i \in 1..Len(d.vessel_statuses.v) : ShouldSpill(d.vessel_statuses.v[i])}
    ELSE UpstreamData(rt)

InitConc ==
    /\ route \in [Reqs -> Routes]
    /\ body = [r \in Reqs |-> ConcBody(route[r])]
    /\ upstream \in [Reqs -> UNION {ConcUpstream(rt) : rt \in Routes}]
    /\ \A r \in Reqs : upstream[r] \in ConcUpstream(route[r])
    /\ GatewayFresh
    /\ PageUnmounted
    /\ OthersIdle

SpecConc == InitConc /\ [][Next]_vars

\* A monitor page as mounted: no result, not loading, no error; signed in or not.
InitPage ==
    /\ pgPage \in Pages
    /\ pgUser \in {Null, Obj([uid |-> "u1"])}
    /\ pgPc = "idle" /\ pgLoading = FALSE /\ pgError = "" /\ pgResult = Null
    /\ pgAnalyzed = FALSE
    /\ pgPosted = NoBody
    /\ PanelFresh
    /\ GatewayIdle
    /\ OthersIdle

NextPage == RunAnalysis \/ AnalyzeFail \/ AnalyzeOk \/ HistoryOk \/ HistoryFail

SpecPage == InitPage /\ [][NextPage]_vars

\* The AEGIS page with its input panel in use, nobody signed in.
InitPanel ==
    /\ pgPage = "aegis" /\ pgUser = Null
    /\ pgPc = "idle" /\ pgLoading = FALSE /\ pgError = "" /\ pgResult = Null
    /\ pgAnalyzed = FALSE
    /\ pgPosted = NoBody
    /\ PanelFresh
    /\ GatewayIdle
    /\ OthersIdle

NextPanel ==
    \/ SetMode \/ SetScenario \/ SetTimeStep \/ SetManualParam
    \/ RunAnalysis \/ AnalyzeFail \/ AnalyzeOk

SpecPanel == InitPanel /\ [][NextPanel]_vars

\* The Cascade Simulator page.
InitCascade ==
    /\ CascadeFresh("idle")
    /\ GatewayIdle
    /\ PageUnmounted
    /\ AuthFresh("none", "/")
    /\ StoreFresh(0)

NextCascade ==
    \/ SetSourceType \/ SetFlowDirection \/ SetFlowSpeed \/ SetSimHours
    \/ MapClick \/ SetCurrentHour
    \/ RunSimulation \/ SimulateOk \/ SimulateFail

SpecCascade == InitCascade /\ [][NextCascade]_vars

\* The application's routes and its sign-in, from a page load at any path.
InitAuth ==
    /\ \E path \in Paths : AuthFresh("load", path)
    /\ GatewayIdle
    /\ PageUnmounted
    /\ CascadeFresh("none")
    /\ StoreFresh(0)

NextAuth ==
    \/ Visit \/ SessionChecked \/ Redirect \/ ToggleRegister
    \/ SignInStart \/ AuthStateUpdate \/ SignInResolves \/ SignInRejects

SpecAuth == InitAuth /\ [][NextAuth]_vars

\* The history routes on their in-memory store.
InitHistory ==
    /\ StoreFresh(Epoch)
    /\ GatewayIdle
    /\ PageUnmounted
    /\ CascadeFresh("none")
    /\ AuthFresh("none", "/")

NextHistory == Tick \/ PostHistory \/ GetHistory

SpecHistory == InitHistory /\ [][NextHistory]_vars

\* ================================================================ claims
Done(r) == pc[r] = "done"

\* the request's first upstream call (predict_fragility, detect_vessel_anomaly,
\* simulate_propagation) was answered with a failure
PrimaryFailed(r) == Len(replies[r]) >= 1 /\ ~replies[r][1].ok

AnyFailed(r) == \E i \in 1..Len(replies[r]) : ~replies[r][i].ok

\* HTTP 500 carrying an error object and nothing else
IsErrorResponse(x) == x.status = 500 /\ DOMAIN x.body = {"error", "detail"}

OkSpillReplies(r) ==
    {i \in 1..Len(replies[r]) : replies[r][i].op = "detect_oil_spill" /\ replies[r][i].ok}

SpillRequests(r) == {i \in 1..Len(sent[r]) : sent[r][i].op = "detect_oil_spill"}

\* C1 as stated: whenever any upstream call made while serving a request has failed,
\* a detect_oil_spill call inside /api/marine/analyze included, the request is
\* answered with HTTP 500 and an error object.
C1_AnyFailureAnswers500 ==
    \A r \in Reqs : (Done(r) /\ AnyFailed(r)) => IsErrorResponse(res[r])

\* C1 as amended: a failure of the route's own upstream call (predict_fragility,
\* detect_vessel_anomaly, simulate_propagation) is answered with HTTP 500 and an
\* error object, never with data; a failed detect_oil_spill call is not: once the
\* detector has answered, /api/marine/analyze answers 200 with the detector's data
\* and one oil_spills entry per spill call that succeeded.
C1_PrimaryFailureAnswers500 ==
    \A r \in Reqs :
        Done(r) =>
            /\ PrimaryFailed(r) => IsErrorResponse(res[r])
            /\ (route[r] = "marine" /\ ~PrimaryFailed(r)) =>
                /\ res[r].status = 200
                /\ \A f \in DOMAIN upstream[r] : res[r].body[f] = upstream[r][f]
                /\ Len(res[r].body.oil_spills) = Cardinality(OkSpillReplies(r))

\* A marine request whose detector call failed has been answered.
C1_Witness ==
    \E r \in Reqs : route[r] = "marine" /\ Done(r) /\ PrimaryFailed(r) /\ res[r].status = 500

\* The vessel_statuses a marine response carries.
ResponseStatuses(b) ==
    IF b.vessel_statuses.t = "object" THEN b.vessel_statuses.v ELSE <<>>

\* C2: a detect_oil_spill request is issued only for a vessel status that is
\* 'distress', and every oil_spills entry of a marine response carries the
\* vessel_imo of a vessel whose status in that response is 'distress', never that of
\* a normal or suspicious one.
C2_SpillsOnlyForDistress ==
    \A r \in Reqs :
        /\ \A i \in SpillRequests(r) :
            \E j \in 1..Len(statuses[r]) :
                /\ statuses[r][j].status = "distress"
                /\ statuses[r][j].vessel = sent[r][i].payload.vessel
        /\ (route[r] = "marine" /\ Done(r) /\ res[r].status = 200) =>
            LET st == ResponseStatuses(res[r].body)
                spills == res[r].body.oil_spills
            IN \A k \in 1..Len(spills) :
                /\ \E j \in 1..Len(st) :
                    st[j].status = "distress" /\ st[j].imo = spills[k].vessel_imo
                /\ \A j \in 1..Len(st) :
                    st[j].status # "distress" => st[j].imo # spills[k].vessel_imo

\* A marine response with a spill entry beside a vessel that is not in distress.
C2_Witness ==
    \E r \in Reqs :
        /\ route[r] = "marine" /\ Done(r) /\ res[r].status = 200
        /\ Len(res[r].body.oil_spills) >= 1
        /\ \E j \in 1..Len(statuses[r]) :
            statuses[r][j].status # "distress" /\ statuses[r][j].vessel.t = "object"

\* The spill requests issued for the vessel status at position j.
SpillRequestsFor(r, j) ==
    {i \in SpillRequests(r) : sent[r][i].payload.vessel = statuses[r][j].vessel}

IsDistress(vs) == vs.status = "distress"

HasVessel(vs) == vs.vessel.t = "object"

\* C3 as stated: when a marine request has been answered from a detector response,
\* detect_oil_spill was called exactly once for each vessel status that is
\* 'distress', and the number of spill requests is the number of distress vessels.
C3_OncePerDistress ==
    \A r \in Reqs :
        (route[r] = "marine" /\ Done(r) /\ res[r].status = 200) =>
            /\ \A j \in 1..Len(statuses[r]) :
                IsDistress(statuses[r][j]) => Cardinality(SpillRequestsFor(r, j)) = 1
            /\ Cardinality(SpillRequests(r)) =
                Cardinality({j \in 1..Len(statuses[r]) : IsDistress(statuses[r][j])})

\* C3 as amended: detect_oil_spill was called exactly once for each vessel status
\* that is 'distress' and carries a vessel object, and never for any other entry (a
\* distress entry without a vessel gets no spill request); the number of spill
\* requests is the number of distress entries that carry a vessel.
C3_OncePerDistressWithVessel ==
    \A r \in Reqs :
        (route[r] = "marine" /\ Done(r) /\ res[r].status = 200) =>
            /\ \A j \in 1..Len(statuses[r]) :
                Cardinality(SpillRequestsFor(r, j)) =
                    IF IsDistress(statuses[r][j]) /\ HasVessel(statuses[r][j]) THEN 1 ELSE 0
            /\ Cardinality(SpillRequests(r)) =
                Cardinality({j \in 1..Len(statuses[r]) :
                                IsDistress(statuses[r][j]) /\ HasVessel(statuses[r][j])})

\* A marine response for two distress vessels, both carrying a vessel object.
C3_Witness ==
    \E r \in Reqs :
        /\ route[r] = "marine" /\ Done(r) /\ res[r].status = 200
        /\ Len(statuses[r]) >= 2
        /\ \A j \in 1..2 : IsDistress(statuses[r][j]) /\ HasVessel(statuses[r][j])
        /\ Cardinality(SpillRequests(r)) = 2

CascadeRequests(r) == {i \in 1..Len(sent[r]) : sent[r][i].op = "simulate_propagation"}

\* C4: a /api/cascade/simulate request with simulation_hours 0 or 30 is answered
\* with an error, and no simulation is requested from the analysis service with a
\* duration other than the one the caller gave.
C4_InvalidHoursRejected ==
    \A r \in Reqs :
        (route[r] = "cascade" /\ body[r].simulation_hours \in {Num(0), Num(30)}) =>
            /\ \A i \in CascadeRequests(r) :
                sent[r][i].payload.simulation_hours = body[r].simulation_hours
            /\ Done(r) => IsErrorResponse(res[r])

\* The documented input domain of each optional simulate parameter.
InDomain(f, x) ==
    CASE f = "source_type" ->
            x \in {Str("Oil Spill"), Str("Sewage Overflow"), Str("Industrial Discharge")}
      [] f = "flow_direction" -> x.t = "number" /\ x.v \in 0..360
      [] f = "flow_speed" -> x.t = "number" /\ x.v > 0
      [] f = "simulation_hours" -> x.t = "number" /\ x.v \in 6..24

OptionalParams == {"source_type", "flow_direction", "flow_speed", "simulation_hours"}

DocumentedDefault(f) ==
    CASE f = "source_type" -> Str("Oil Spill")
      [] f = "flow_direction" -> Num(180)
      [] f = "flow_speed" -> Num(2)
      [] f = "simulation_hours" -> Num(12)

\* C5: every parameter the caller supplies within its domain (source_type,
\* flow_direction in 0..360, flow_speed, simulation_hours) reaches
\* simulate_propagation with the value supplied, and the default is substituted only
\* for a parameter that is absent; flow_direction = 0 is forwarded as 0.
C5_SuppliedParamsForwarded ==
    \A r \in Reqs :
        route[r] = "cascade" =>
            \A i \in CascadeRequests(r) : \A f \in OptionalParams :
                /\ body[r][f] = Undefined => sent[r][i].payload[f] = DocumentedDefault(f)
                /\ (body[r][f] # Undefined /\ InDomain(f, body[r][f])) =>
                    sent[r][i].payload[f] = body[r][f]

\* C6: for a /api/cascade/simulate request that lacks source_lat or source_lon, no
\* request is ever sent to simulate_propagation.
C6_NoCallWithoutPosition ==
    \A r \in Reqs :
        (/\ route[r] = "cascade"
         /\ (body[r].source_lat = Undefined \/ body[r].source_lon = Undefined)) =>
            CascadeRequests(r) = {}

\* C8: no handler retries: for one incoming request no upstream request is issued
\* twice (the route's own call at most once, detect_oil_spill at most once per
\* vessel), and after a failure of the route's own call nothing more is issued.
C8_NoRetry ==
    \A r \in Reqs :
        /\ \A i, j \in 1..Len(sent[r]) : i # j => sent[r][i] # sent[r][j]
        /\ Cardinality({i \in 1..Len(sent[r]) : sent[r][i].op = PrimaryOp(route[r])}) <= 1
        /\ PrimaryFailed(r) => Len(sent[r]) = 1
        /\ Len(sent[r]) <= Len(replies[r]) + 1
        /\ Done(r) => Len(sent[r]) = Len(replies[r])

\* A marine request has been answered after its first spill call failed and a
\* second one, for the next distress vessel, was issued.
C8_Witness ==
    \E r \in Reqs :
        /\ route[r] = "marine" /\ Done(r)
        /\ Len(replies[r]) = 3 /\ ~replies[r][2].ok
        /\ Cardinality(SpillRequests(r)) = 2

\* The oil_spills a marine handler collects when it runs alone over the statuses
\* `st`, given the spill replies `reps` in the order it receives them.
RECURSIVE SpillsAlone(_, _, _)
SpillsAlone(st, reps, acc) ==
    IF st = <<>> THEN acc
    ELSE IF ~(IsDistress(Head(st)) /\ ~Falsy(Head(st).vessel))
    THEN SpillsAlone(Tail(st), reps, acc)
    ELSE IF Head(reps).ok
    THEN SpillsAlone(Tail(st), Tail(reps),
                     Append(acc, [f \in DOMAIN Head(reps).data \cup {"vessel_imo"} |->
                                    IF f = "vessel_imo" THEN Head(st).imo
                                    ELSE Head(reps).data[f]]))
    ELSE SpillsAlone(Tail(st), Tail(reps), acc)

\* The response a request gets when it is the only one served: a function of its
\* route and of the upstream replies it received, in order.
ServedAlone(rt, reps) ==
    LET first == reps[1] IN
    IF ~first.ok
    THEN [status |-> 500,
          body |-> [error |-> CASE rt = "aegis" -> "Failed to run AEGIS analysis"
                                [] rt = "marine" -> "Failed to run marine analysis"
                                [] rt = "cascade" -> "Failed to run propagation simulation",
                    detail |-> first.data.message]]
    ELSE IF rt = "marine"
    THEN LET st == IF first.data.vessel_statuses.t = "object"
                   THEN first.data.vessel_statuses.v ELSE <<>>
             spills == SpillsAlone(st, Tail(reps), <<>>)
         IN [status |-> 200,
             body |-> [f \in DOMAIN first.data \cup {"oil_spills"} |->
                        IF f = "oil_spills" THEN spills ELSE first.data[f]]]
    ELSE [status |-> 200, body |-> first.data]

\* C9: concurrent requests are independent: under any interleaving of the handlers
\* at their awaits, the response to each request is the one it would get if served
\* alone with the same upstream replies.
C9_ConcurrentRequestsIndependent ==
    \A r \in Reqs : Done(r) => res[r] = ServedAlone(route[r], replies[r])

\* Two marine requests have both been answered, each with spill entries of its own.
C9_Witness ==
    \E r, q \in Reqs :
        /\ r # q /\ route[r] = "marine" /\ route[q] = "marine"
        /\ Done(r) /\ Done(q) /\ res[r].status = 200 /\ res[q].status = 200
        /\ Len(res[r].body.oil_spills) >= 1 /\ Len(res[q].body.oil_spills) >= 1
        /\ res[r].body.oil_spills # res[q].body.oil_spills

\* ----------------------------------------------------------- the pages
\* C7: saving to the history sink is fire-and-forget: once the analysis request of
\* a run has succeeded (here: with a response that carries its summary), the
\* finished run shows the result, no error message and loading cleared, whatever
\* became of POST /api/user/history.
C7_HistoryFireAndForget ==
    (pgAnalyzed /\ pgPc = "idle" /\ OptField(pgResult, "summary").t = "object") =>
        /\ pgResult # Null
        /\ pgError = ""
        /\ ~pgLoading

\* C10: a summary count the successful response omits is never presented as the
\* value 0.
C10_AbsentNeverShownAsZero ==
    pgResult # Null =>
        \A f \in SummaryFields(pgPage) :
            OptField(pgResult.v.summary, f) = Undefined =>
                SummaryCards(pgPage, pgResult.v)[f] # Num(0)

\* ----------------------------------------------------------- the marine route
\* The detect_vessel_anomaly requests issued for request r.
DetectorRequests(r) == {i \in 1..Len(sent[r]) : sent[r][i].op = "detect_vessel_anomaly"}

\* The caller supplied no vessels: the field is absent from the body, or null.
NoVesselsSupplied(b) == b.vessels \in {Undefined, Null}

\* C11: POST /api/marine/analyze forwards vessels = null to detect_vessel_anomaly
\* exactly when the caller supplied no vessels, and forwards a vessel list the
\* caller supplied, an empty one included, unchanged.
C11_VesselsForwarded ==
    \A r \in Reqs : \A i \in DetectorRequests(r) :
        /\ (sent[r][i].payload.vessels = Null) <=> NoVesselsSupplied(body[r])
        /\ ~NoVesselsSupplied(body[r]) => sent[r][i].payload.vessels = body[r].vessels

\* The detector was asked about an empty vessel list the caller supplied.
C11_Witness ==
    \E r \in Reqs : \E i \in DetectorRequests(r) :
        body[r].vessels = Obj(<<>>) /\ sent[r][i].payload.vessels = Obj(<<>>)

\* C18: once the detector has answered, a failed detect_oil_spill call neither
\* aborts the response of /api/marine/analyze nor stops the spill calls for the
\* distress vessels after it: the request is answered 200 with every field of the
\* detector result, a spill request was issued for every distress vessel, and
\* oil_spills holds, in order, one entry for each spill call that succeeded and
\* none for a call that failed.
C18_SpillFailureIsolated ==
    \A r \in Reqs :
        (route[r] = "marine" /\ Done(r) /\ ~PrimaryFailed(r)) =>
            /\ res[r].status = 200
            /\ \A f \in DOMAIN upstream[r] : res[r].body[f] = upstream[r][f]
            /\ \A j \in 1..Len(statuses[r]) :
                ShouldSpill(statuses[r][j]) => SpillRequestsFor(r, j) # {}
            /\ res[r].body.oil_spills = SpillsAlone(statuses[r], Tail(replies[r]), <<>>)

\* A marine request was answered after the spill call for its first distress vessel
\* failed and the one for its second succeeded: oil_spills holds the second only.
C18_Witness ==
    \E r \in Reqs :
        /\ route[r] = "marine" /\ Done(r) /\ res[r].status = 200
        /\ Len(replies[r]) = 3 /\ ~replies[r][2].ok /\ replies[r][3].ok
        /\ Len(res[r].body.oil_spills) = 1
        /\ res[r].body.oil_spills[1].vessel_imo = statuses[r][2].imo

\* ---------------------------------------------------- the AEGIS input panel
\* The ranges the specification documents for manual fields, in tenths:
\* power_availability in [0, 1].
DocumentedRanges == [power_availability |-> [lo |-> 0, hi |-> 10]]

\* C12: every manual_params object the AEGIS page posts, and the gateway passes on
\* to predict_fragility, has its fields within their valid ranges
\* (power_availability in [0, 1]); an out-of-range manual value is never forwarded.
C12_ManualParamsInRange ==
    (pgPage = "aegis" /\ pgPosted # NoBody) =>
        LET forwarded == AegisPayload(pgPosted).manual_params IN
        forwarded.t = "object" =>
            \A f \in DOMAIN DocumentedRanges :
                /\ forwarded.v[f].t = "number"
                /\ forwarded.v[f].v >= DocumentedRanges[f].lo
                /\ forwarded.v[f].v <= DocumentedRanges[f].hi

\* ------------------------------------------------- the Cascade Simulator page
\* C13: whatever the controls were set to, every request the Cascade Simulator
\* page posts to /api/cascade/simulate carries an integer simulation_hours in
\* [6, 24], a flow_direction in [0, 360], a source_type of SOURCE_TYPES and a
\* source position that is not null.
C13_PostedWithinControlRanges ==
    csPosted # NoBody =>
        /\ csPosted.simulation_hours.t = "number"
        /\ csPosted.simulation_hours.v \in 6..24
        /\ csPosted.flow_direction.t = "number"
        /\ csPosted.flow_direction.v \in 0..360
        /\ csPosted.source_type \in {Str(t) : t \in SOURCE_TYPES}
        /\ csPosted.source_lat.t = "number"
        /\ csPosted.source_lon.t = "number"

\* A request was posted after the duration, the direction and the source type had
\* all been changed: 24 hours, 360 degrees, an industrial discharge.
C13_Witness ==
    /\ csPosted # NoBody
    /\ csPosted.simulation_hours = Num(24)
    /\ csPosted.flow_direction = Num(360)
    /\ csPosted.source_type = Str("Industrial Discharge")

\* C19: while no source location is set, nothing that happens on the page, a click
\* on "Run Simulation" included, sends a request or changes result, currentHour or
\* loading; the click only sets the error message.
C19_NoSourceNoRequest ==
    [][Falsy(csSourceLocation) =>
        /\ UNCHANGED <<csPosted, csPc, csResult, csCurrentHour, csLoading>>
        /\ csError' \in {csError, NoSourceMessage}]_vars

\* "Run Simulation" was clicked with no source set: the message is shown, nothing
\* was sent and nothing is loading.
C19_Witness ==
    /\ csSourceLocation = Null /\ csError = NoSourceMessage
    /\ csPosted = NoBody /\ csPc = "idle" /\ csResult = Null /\ ~csLoading

\* ------------------------------------------------- routing and authentication
\* C14: ProtectedRoute never renders its children (the pages of DashboardLayout)
\* while auth is loading or the user is null: at a protected path it shows the
\* spinner while loading and, once loading is over with no user, a redirect to
\* /login whose state.from is the requested location; and after that redirect the
\* location is /login with state.from the location it was taken from.
C14_ProtectedNeverShownUnauthenticated ==
    /\ auLoc.pathname \in ProtectedPaths =>
        LET view == Rendered(auLoading, auUser, auLoc) IN
        /\ auLoading => view = Spinner
        /\ (~auLoading /\ auUser = Null) =>
                view = Navigate("/login", Obj([from |-> Obj(auLoc)]))
        /\ view = Children => (~auLoading /\ auUser # Null)
    /\ auNav = "protected" =>
        /\ auPrev.pathname \in ProtectedPaths
        /\ auLoc = Location("/login", Obj([from |-> Obj(auPrev)]))

\* A visit to /aegis with nobody signed in has been redirected to /login, which
\* recorded /aegis.
C14_Witness ==
    /\ auNav = "protected" /\ auUser = Null /\ auRequested = "/aegis"
    /\ auLoc.pathname = "/login" /\ From(auLoc) = "/aegis"

\* C15: PublicRoute never renders the Login page once loading is over and a user is
\* signed in: at /login it then renders the redirect to /dashboard, and that
\* redirect leads a signed-in user to /dashboard.
C15_LoginNeverShownAuthenticated ==
    /\ (auLoc.pathname = "/login" /\ ~auLoading /\ auUser # Null) =>
        /\ ~LoginMounted(auLoading, auUser, auLoc)
        /\ Rendered(auLoading, auUser, auLoc) = Navigate("/dashboard", Undefined)
    /\ LoginMounted(auLoading, auUser, auLoc) => auUser = Null
    /\ auNav = "public" =>
        auPrev.pathname = "/login" /\ auLoc.pathname = "/dashboard" /\ auUser # Null

\* A signed-in user who asked for /login has been redirected to /dashboard.
C15_Witness ==
    /\ auNav = "public" /\ auRequested = "/login" /\ auUser # Null
    /\ auLoc.pathname = "/dashboard"

\* The page the user asked for when that was a protected page, /dashboard otherwise.
RequestedOrDashboard ==
    IF auRequested \in ProtectedPaths THEN auRequested ELSE "/dashboard"

\* The sign-in is over: its auth-state update has arrived, its handler has
\* finished and no redirect is pending.
Settled ==
    /\ auUser # Null /\ lgPc = "idle"
    /\ Rendered(auLoading, auUser, auLoc).kind # "navigate"

\* C16: after a successful sign-in (email login, registration or Google) the user
\* ends on the page originally requested, or on /dashboard when none was recorded,
\* whichever of the auth-state update and the resolution of the sign-in promise
\* comes first; after a failed sign-in the location is still /login and the Login
\* page shows an error message.
C16_SignInLandsOnRequestedPage ==
    /\ (lgOutcome = "signedIn" /\ Settled) => auLoc.pathname = RequestedOrDashboard
    /\ (lgOutcome = "failed" /\ lgAlive) =>
        auLoc.pathname = "/login" /\ lgError # "" /\ ~lgLoading

\* ------------------------------------------------- the in-memory history store
\* The last response is the history a GET returned.
Fetched == hsRes.status = 200 /\ "history" \in DOMAIN hsRes.body

\* How many entries were saved after the k-th one: by anyone, and by its user.
NewerOverall(k) == Len(hsSaved) - k

NewerOfUser(k) ==
    Cardinality({j \in (k + 1)..Len(hsSaved) : hsSaved[j].userId = hsSaved[k].userId})

\* The fetched history has an entry with what entry e was saved with.
Returned(e) ==
    \E i \in 1..Len(hsRes.body.history) :
        LET h == hsRes.body.history[i] IN
        /\ h.userId = e.userId /\ h.product = e.product
        /\ h.analysisType = e.analysisType /\ h.summary = e.summary /\ h.data = e.data

\* C17: the save/fetch round trip: a GET /api/user/history for a userId returns
\* every entry a successful POST saved for that userId, as long as fewer than 50
\* entries of that user and fewer than 500 entries overall were saved after it.
C17_SavedEntryIsFetched ==
    Fetched =>
        \A k \in 1..Len(hsSaved) :
            (/\ hsSaved[k].userId = hsReq.userId
             /\ NewerOfUser(k) < PageCap
             /\ NewerOverall(k) < StoreCap) => Returned(hsSaved[k])

\* C20: after any sequence of POST /api/user/history requests the store holds at
\* most 500 entries, and they are the entries saved last, in the order they were
\* saved in: the oldest are the ones dropped.
C20_StoreKeepsLatest ==
    LET n == Len(hsSaved)
        kept == IF n < StoreCap THEN n ELSE StoreCap
    IN /\ Len(analysisHistory) <= StoreCap
       /\ analysisHistory = SubSeq(hsSaved, n - kept + 1, n)

\* More entries were saved than the store holds, and the first one saved, which
\* differs from all that are left, is gone.
C20_Witness ==
    /\ Len(hsSaved) > StoreCap /\ Len(analysisHistory) = StoreCap
    /\ \A i \in 1..Len(analysisHistory) : analysisHistory[i] # hsSaved[1]

\* The stored entries of the user the last request asked for, in stored order.
Mine == FilterUser(analysisHistory, hsReq.userId)

\* How often entry e occurs in a list.
Occurrences(list, e) == Cardinality({i \in 1..Len(list) : list[i] = e})

\* C21: GET /api/user/history with a userId returns at most 50 entries, every one
\* of them with exactly that userId, ordered by timestamp from newest to oldest,
\* and they are the 50 newest stored entries of that user: each is a stored entry,
\* as many are returned as the user has (up to 50), and every stored entry that is
\* left out is no newer by its timestamp than any entry returned.
C21_FetchNewestOfUser ==
    Fetched =>
        LET history == hsRes.body.history
            n == Len(history)
        IN /\ n <= PageCap
           /\ n = (IF Len(Mine) < PageCap THEN Len(Mine) ELSE PageCap)
           /\ \A i \in 1..n : history[i].userId = hsReq.userId
           /\ \A i \in 1..n : \A j \in i..n :
                history[i].timestamp.v >= history[j].timestamp.v
           /\ \A i \in 1..n : Occurrences(history, history[i]) <= Occurrences(Mine, history[i])
           /\ \A k \in 1..Len(Mine) :
                Occurrences(history, Mine[k]) < Occurrences(Mine, Mine[k]) =>
                    \A i \in 1..n : Mine[k].timestamp.v <= history[i].timestamp.v

\* The user has more stored entries than a fetch returns; the fetch left out an
\* entry older than all it returned and put the newest one, stored last, first.
C21_Witness ==
    /\ Fetched
    /\ Len(Mine) > PageCap
    /\ Len(hsRes.body.history) = PageCap
    /\ hsRes.body.history[1] = Mine[Len(Mine)]
    /\ hsRes.body.history[1] # Mine[1]
    /\ \A i \in 1..Len(hsRes.body.history) :
        Mine[1].timestamp.v < hsRes.body.history[i].timestamp.v

\* The request was a POST whose body lacks userId or product.
IncompletePost(req) ==
    /\ "method" \in DOMAIN req /\ req.method = "POST"
    /\ req.body.userId = Undefined \/ req.body.product = Undefined

\* The request was a GET without a userId.
AnonymousGet(req) ==
    "method" \in DOMAIN req /\ req.method = "GET" /\ req.userId = Undefined

\* C22: POST /api/user/history without a userId or without a product answers 400
\* and leaves the history store unchanged; GET /api/user/history without a userId
\* answers 400 and returns no history.
C22_IncompleteRequestsRejected ==
    [][/\ IncompletePost(hsReq') =>
            /\ hsRes'.status = 400
            /\ "entry" \notin DOMAIN hsRes'.body
            /\ analysisHistory' = analysisHistory
            /\ hsSaved' = hsSaved
       /\ AnonymousGet(hsReq') =>
            /\ hsRes'.status = 400
            /\ "history" \notin DOMAIN hsRes'.body
            /\ analysisHistory' = analysisHistory]_vars

\* A POST that has a userId but no product was answered while the store held
\* entries of that very user.
C22_Witness ==
    /\ IncompletePost(hsReq)
    /\ hsReq.body.userId # Undefined
    /\ hsRes.status = 400
    /\ \E i \in 1..Len(analysisHistory) : analysisHistory[i].userId = hsReq.body.userId

\* The request was a GET.
IsGet(req) == "method" \in DOMAIN req /\ req.method = "GET"

\* C23: GET /api/user/history leaves the in-memory history store unchanged:
\* filtering, sorting and truncating for the response never reorder, remove or
\* alter stored entries, so the store stays in insertion order.
C23_FetchLeavesStore ==
    [][IsGet(hsReq') => analysisHistory' = analysisHistory]_vars

\* A fetch filtered out another user's entry and returned the rest in an order
\* other than the stored one, and the store is still as it was saved.
C23_Witness ==
    /\ Fetched
    /\ Len(Mine) < Len(analysisHistory)
    /\ Len(hsRes.body.history) > 1
    /\ hsRes.body.history # FirstPage(Mine)
    /\ analysisHistory = hsSaved

\* C24: any two entries held in the in-memory history store have distinct ids,
\* including entries saved by two POST requests handled within the same
\* millisecond.
C24_DistinctIds ==
    \A i \in 1..Len(analysisHistory) : \A j \in 1..Len(analysisHistory) :
        i # j => analysisHistory[i].id # analysisHistory[j].id

====
